---------------------------- MODULE Spec2Model ----------------------------
(***************************************************************************)
(* A model of hdict/dictionary.py: the hashable dictionary HDict, its      *)
(* multi-form constructor, the coercing __setitem__, the factory-backed    *)
(* __getitem__, __hash__, and the JSON round trip loads(to_json(m)).       *)
(*                                                                         *)
(* Python values are records [t, s, items]:                                *)
(*   t = "str" | "int"   a scalar, s its text                              *)
(*   t = "none"          None                                              *)
(*   t = "list"          a list (unhashable, not a mapping), items         *)
(*   t = "tuple"         a tuple, items                                    *)
(*   t = "dict"          a plain dict, items its entries in order          *)
(*   t = "hdict"         an HDict, items its entries in order, s = "f"     *)
(*                       when it was built with a factory                  *)
(*   t = "entry"         one key/value entry of a mapping, items = <<k,v>> *)
(***************************************************************************)
EXTENDS Integers, Sequences, FiniteSets, TLC

VARIABLES m, factory, m2, factory2, last

vars == <<m, factory, m2, factory2, last>>

\* ------------------------------------------------------------------ bounds

\* Largest number of entries an action lets a map under test grow to.
MaxSize == 2

\* Deepest nesting of plain mappings offered to set and to the factory.
MaxDepth == 2

\* Largest number of entries in an entry list given to the constructor forms
\* or held by a map that is serialised.
MaxPairs == 2

\* Largest number of positional arguments of a constructor call.
MaxArgs == 3

\* ------------------------------------------------------------------ values

Val(t, s, items) == [t |-> t, s |-> s, items |-> items]

Str(s) == Val("str", s, <<>>)

Num(s) == Val("int", s, <<>>)

NoneVal == Val("none", "", <<>>)

List(items) == Val("list", "", items)

Tup(items) == Val("tuple", "", items)

Entry(k, v) == Val("entry", "", <<k, v>>)

Dict(entries) == Val("dict", "", entries)

HD(entries) == Val("hdict", "", entries)

HDF(entries) == Val("hdict", "f", entries)

EKey(e) == e.items[1]

EVal(e) == e.items[2]

\* The characters of the strings the model uses (str is a Sequence of its
\* one-character strings).
Chars(s) ==
    CASE s = "ab" -> <<"a", "b">>
      [] s = "cd" -> <<"c", "d">>
      [] s = "" -> <<>>
      [] OTHER -> <<s>>

\* isinstance(v, typing.Sequence)
IsSequence(v) == v.t \in {"str", "list", "tuple"}

\* list(v) for a sequence v
SeqItems(v) ==
    IF v.t = "str"
    THEN [i \in 1..Len(Chars(v.s)) |-> Str(Chars(v.s)[i])]
    ELSE v.items

\* isinstance(v, typing.Mapping)
IsMapping(v) == v.t \in {"dict", "hdict"}

\* isinstance(v, typing.Hashable): the type defines __hash__. A tuple's type
\* does, whatever the tuple holds.
IsHashable(v) == v.t \notin {"list", "dict"}

\* hash(v) returns rather than raising TypeError.
RECURSIVE CanHash(_)
CanHash(v) ==
    CASE v.t \in {"list", "dict"} -> FALSE
      [] v.t = "tuple" -> \A i \in 1..Len(v.items) : CanHash(v.items[i])
      [] OTHER -> TRUE

\* a == b
RECURSIVE PyEq(_, _)
PyEq(a, b) ==
    CASE a.t \in {"str", "int", "none"} -> b.t = a.t /\ b.s = a.s
      [] a.t \in {"list", "tuple"} ->
            /\ b.t = a.t
            /\ Len(b.items) = Len(a.items)
            /\ \A i \in 1..Len(a.items) : PyEq(a.items[i], b.items[i])
      [] OTHER ->
            /\ IsMapping(b)
            /\ Len(b.items) = Len(a.items)
            /\ \A i \in 1..Len(a.items) :
                  \E j \in 1..Len(b.items) :
                     /\ PyEq(EKey(a.items[i]), EKey(b.items[j]))
                     /\ PyEq(EVal(a.items[i]), EVal(b.items[j]))

\* ------------------------------------------------------------------ hashing

\* hash() of a scalar: fixed per value, different for the scalars in use.
ScalarHash(v) ==
    CASE v.t = "none" -> 3
      [] v.t = "int" /\ v.s = "1" -> 1
      [] v.t = "int" /\ v.s = "2" -> 2
      [] v.s = "a" -> 101
      [] v.s = "b" -> 211
      [] v.s = "c" -> 307
      [] v.s = "d" -> 401
      [] v.s = "x" -> 503
      [] v.s = "y" -> 601
      [] v.s = "ab" -> 701
      [] v.s = "cd" -> 809
      [] OTHER -> 907

\* hash(frozenset(...)) of the elements with hashes hs: a combination that
\* does not depend on the order the elements are met in.
RECURSIVE FrozensetHash(_)
FrozensetHash(hs) ==
    IF hs = <<>> THEN 7919
    ELSE (((Head(hs) * 31 + 17) % 65521) + FrozensetHash(Tail(hs))) % 65521

RECURSIVE TupleHash(_)
TupleHash(hs) ==
    IF hs = <<>> THEN 5
    ELSE (TupleHash(SubSeq(hs, 1, Len(hs) - 1)) * 33 + hs[Len(hs)]) % 65521

\* The keys of a mapping's entries, in iteration order.
Keys(entries) == [i \in 1..Len(entries) |-> EKey(entries[i])]

RECURSIVE PyHash(_)

\* A hash that is sensitive to insertion order: hash(tuple(self)).
HDictHashOrdered(entries) ==
    TupleHash([i \in 1..Len(entries) |-> PyHash(Keys(entries)[i])])

\* HDict.__hash__: hash(frozenset(self)), self iterating its keys in
\* insertion order.
HDictHash(entries) ==
    FrozensetHash([i \in 1..Len(entries) |-> PyHash(Keys(entries)[i])])

\* hash(v) for a v with CanHash(v).
PyHash(v) ==
    CASE v.t = "hdict" -> HDictHash(v.items)
      [] v.t = "tuple" -> TupleHash([i \in 1..Len(v.items) |-> PyHash(v.items[i])])
      [] OTHER -> ScalarHash(v)

\* ------------------------------------------------------ the built-in dict

\* The outcome of an operation on a map: err is "ok" or the exception raised,
\* entries the map's entries afterwards.
Res(err, entries) == [err |-> err, entries |-> entries]

\* The outcome of an operation that yields a value.
ValRes(err, val) == [err |-> err, val |-> val]

\* The least member of a set of positions, 0 for the empty set.
FirstOf(S) == IF S = {} THEN 0 ELSE CHOOSE i \in S : \A j \in S : i <= j

\* The position of the entry whose key equals k, 0 when there is none.
IndexOf(entries, k) ==
    FirstOf({i \in 1..Len(entries) : PyEq(EKey(entries[i]), k)})

\* k in self
Contains(entries, k) == IndexOf(entries, k) # 0

\* The entries with v stored under k, i being k's position (0: a new key). An
\* equal key keeps its place and its key object, a new key is appended.
PutAt(entries, i, k, v) ==
    IF i = 0
    THEN Append(entries, Entry(k, v))
    ELSE [entries EXCEPT ![i] = Entry(EKey(entries[i]), v)]

\* dict.__setitem__ (super().__setitem__, and kwargs[key] = value): the key
\* is hashed first.
DictSetItem(entries, k, v) ==
    IF ~CanHash(k) THEN Res("TypeError", entries)
    ELSE Res("ok", PutAt(entries, IndexOf(entries, k), k, v))

\* dict.__getitem__ (super().__getitem__) of a key that is present
DictGetItem(entries, k) == EVal(entries[IndexOf(entries, k)])

\* The entries without the one at position i; KeyError for i = 0.
RemoveAt(entries, i) ==
    IF i = 0 THEN Res("KeyError", entries)
    ELSE Res("ok", SubSeq(entries, 1, i - 1) \o SubSeq(entries, i + 1, Len(entries)))

\* dict.__delitem__, which HDict inherits
DictDelItem(entries, k) ==
    IF ~CanHash(k) THEN Res("TypeError", entries)
    ELSE RemoveAt(entries, IndexOf(entries, k))

\* ------------------------------------------------ constructor-shape checks

\* One positional argument is a [key, value] pair of two hashable items.
IsKeyValuePair(arg) ==
    /\ IsSequence(arg)
    /\ Len(SeqItems(arg)) = 2
    /\ IsHashable(SeqItems(arg)[1])
    /\ IsHashable(SeqItems(arg)[2])

\* _parameters_are_key_value_pairs(*args)
ParametersAreKeyValuePairs(args) ==
    /\ Len(args) # 0
    /\ \A i \in 1..Len(args) : IsKeyValuePair(args[i])

\* _parameters_is_key_value_list(*args)
ParametersIsKeyValueList(args) ==
    /\ Len(args) # 0
    /\ Len(args) % 2 = 0
    /\ \A i \in 1..Len(args) : (i - 1) % 2 = 0 => IsHashable(args[i])

\* ------------------------------------------------------------------ HDict

RECURSIVE SetItem(_, _, _)
RECURSIVE SetAll(_, _)
RECURSIVE KwSetAll(_, _)
RECURSIVE HDictInit(_, _, _)

\* isinstance(x, typing.Mapping) and not isinstance(x, typing.Hashable)
IsPlainMapping(x) == IsMapping(x) /\ ~IsHashable(x)

\* The new HDict of a construction that ended as r did.
AsHDict(r) == ValRes(r.err, HD(r.entries))

\* Coercion that rebuilds every mapping, also one that is hashable already.
CoercedAlways(x) ==
    IF IsMapping(x) THEN AsHDict(HDictInit(<<>>, x, <<>>)) ELSE ValRes("ok", x)

\* x, or self.__class__(values=x) when x is a plain mapping: a new HDict
\* with no positional or named arguments and no factory.
Coerced(x) ==
    IF IsPlainMapping(x) THEN AsHDict(HDictInit(<<>>, x, <<>>)) ELSE ValRes("ok", x)

\* __setitem__ storing the entry before it checks the value.
SetCoercedStoreFirst(entries, kc, value, vc) ==
    IF kc.err # "ok" THEN Res(kc.err, entries)
    ELSE IF IsPlainMapping(value)
    THEN IF vc.err # "ok" THEN Res(vc.err, entries)
         ELSE DictSetItem(entries, kc.val, vc.val)
    ELSE IF ~IsHashable(value)
    THEN Res("ValueError:value", DictSetItem(entries, kc.val, value).entries)
    ELSE IF ~IsHashable(kc.val) THEN Res("ValueError:key", entries)
    ELSE DictSetItem(entries, kc.val, value)

\* The rest of __setitem__ once the key (kc) and the value (vc) went through
\* their coercion: the value's branch, then, only when the value was not a
\* plain mapping, the two hashability checks, then dict's own __setitem__.
SetCoerced(entries, kc, value, vc) ==
    IF kc.err # "ok" THEN Res(kc.err, entries)
    ELSE IF IsPlainMapping(value)
    THEN IF vc.err # "ok" THEN Res(vc.err, entries)
         ELSE DictSetItem(entries, kc.val, vc.val)
    ELSE IF ~IsHashable(value) THEN Res("ValueError:value", entries)
    ELSE IF ~IsHashable(kc.val) THEN Res("ValueError:key", entries)
    ELSE DictSetItem(entries, kc.val, value)

\* HDict.__setitem__(key, value) on a map with the given entries.
SetItem(entries, key, value) ==
    SetCoerced(entries, Coerced(key), value, Coerced(value))

\* The loop of SetAll after its first assignment ended as r did: an exception
\* stops it, the entries written before staying written.
SetRest(r, rest) == IF r.err # "ok" THEN r ELSE SetAll(r.entries, rest)

\* for key, value in items: self[key] = value
SetAll(entries, items) ==
    IF items = <<>> THEN Res("ok", entries)
    ELSE SetRest(SetItem(entries, EKey(Head(items)), EVal(Head(items))), Tail(items))

KwSetRest(r, rest) == IF r.err # "ok" THEN r ELSE KwSetAll(r.entries, rest)

\* kwargs[key] = value for each of items, on the plain dict kwargs.
KwSetAll(kwargs, items) ==
    IF items = <<>> THEN Res("ok", kwargs)
    ELSE KwSetRest(DictSetItem(kwargs, EKey(Head(items)), EVal(Head(items))),
                   Tail(items))

\* for key, value in args: the (key, value) of each pair argument.
PairEntries(args) ==
    [i \in 1..Len(args) |-> Entry(SeqItems(args[i])[1], SeqItems(args[i])[2])]

\* The (args[i - 1], args[i]) for i in range(1, len(args), 2).
FlatEntries(args) ==
    [j \in 1..(Len(args) \div 2) |-> Entry(args[2 * j - 1], args[2 * j])]

\* The entries the positional arguments stand for, in the form that the
\* first matching shape check selects; err is "ValueError:shape" when none
\* matches.
PositionalEntries(args) ==
    IF ParametersAreKeyValuePairs(args) THEN Res("ok", PairEntries(args))
    ELSE IF ParametersIsKeyValueList(args) THEN Res("ok", FlatEntries(args))
    ELSE IF Len(args) = 1 /\ IsMapping(args[1]) THEN Res("ok", args[1].items)
    ELSE IF args # <<>> THEN Res("ValueError:shape", <<>>)
    ELSE Res("ok", <<>>)

\* A merge in which the named entries are written over the positional ones.
MergeIntoNamedLast(kwargs, pos) ==
    IF pos.err # "ok" THEN Res(pos.err, kwargs) ELSE KwSetAll(pos.entries, kwargs)

\* kwargs after the positional entries were written into it.
MergeInto(kwargs, pos) ==
    IF pos.err # "ok" THEN Res(pos.err, kwargs) ELSE KwSetAll(kwargs, pos.entries)

\* The second loop of __init__: the entries of values, when it is a mapping.
InitValues(named, values) ==
    IF named.err # "ok" THEN named
    ELSE IF IsMapping(values) THEN SetAll(named.entries, values.items)
    ELSE named

\* __init__ from super().__init__() on: kw is the merged named-entry dict.
InitFrom(kw, values) ==
    IF kw.err # "ok" THEN Res(kw.err, <<>>)
    ELSE InitValues(SetAll(<<>>, kw.entries), values)

\* HDict.__init__(*args, values=values, **kwargs): the entries of the new
\* map, or the exception raised. kwargs are the named entries in call order.
HDictInit(args, values, kwargs) ==
    InitFrom(MergeInto(kwargs, PositionalEntries(args)), values)

\* The outcome of a lookup: err, the entries afterwards, the value returned
\* and the number of times the factory was called.
GetRes(err, entries, ret, calls) ==
    [err |-> err, entries |-> entries, ret |-> ret, calls |-> calls]

\* __getitem__ of an absent key on a map with a factory, r being the outcome
\* of self[key] = self.__factory().
GetMade(entries, key, r) ==
    IF r.err # "ok" THEN GetRes(r.err, entries, NoneVal, 1)
    ELSE GetRes("ok", r.entries, DictGetItem(r.entries, key), 1)

\* __getitem__ calling the factory whether or not the key is present.
GetHashedAlways(entries, callable, made, key, present) ==
    IF callable THEN GetMade(entries, key, SetItem(entries, key, made))
    ELSE IF ~present THEN GetRes("KeyError", entries, NoneVal, 0)
    ELSE GetRes("ok", entries, DictGetItem(entries, key), 0)

\* __getitem__ of a hashable key, present telling whether it is in self.
GetHashed(entries, callable, made, key, present) ==
    IF ~present /\ callable THEN GetMade(entries, key, SetItem(entries, key, made))
    ELSE IF ~present THEN GetRes("KeyError", entries, NoneVal, 0)
    ELSE GetRes("ok", entries, DictGetItem(entries, key), 0)

\* HDict.__getitem__(key). callable: isinstance(self.__factory, Callable);
\* made: what self.__factory() returns when it is called.
GetItem(entries, callable, made, key) ==
    IF ~CanHash(key) THEN GetRes("TypeError", entries, NoneVal, 0)
    ELSE GetHashed(entries, callable, made, key, Contains(entries, key))

\* ------------------------------------------------------------ input values

One == Num("1")

Two == Num("2")

\* A plain list: unhashable and not a mapping.
AList == List(<<One>>)

\* A tuple holding a list: its type is hashable, hash() of it raises.
TupleOfList == Tup(<<AList>>)

\* Plain dicts nested d deep: {"x": {"x": ... leaf}}; Nest(0, leaf) = leaf.
RECURSIVE Nest(_, _)
Nest(d, leaf) == IF d = 0 THEN leaf ELSE Dict(<<Entry(Str("x"), Nest(d - 1, leaf))>>)

\* The same nesting built of HDicts.
RECURSIVE NestH(_, _)
NestH(d, leaf) == IF d = 0 THEN leaf ELSE HD(<<Entry(Str("x"), NestH(d - 1, leaf))>>)

\* A plain dict, nested: coerced on insertion.
PlainMapping == Nest(MaxDepth, One)

\* An HDict built with a factory, holding what PlainMapping holds: a mapping
\* that is already hashable.
HashableMapping == HDF(NestH(MaxDepth, One).items)

\* A plain dict with a list at the bottom: coercing it fails.
BadMapping == Nest(MaxDepth, AList)

KeysOffered ==
    {Str("a"), Str("b"), AList, TupleOfList, HashableMapping, PlainMapping, BadMapping}

ValuesOffered ==
    {One, AList, TupleOfList, HashableMapping, PlainMapping, BadMapping}

\* What a call of the factory may return.
FactoryReturns == {One, AList, PlainMapping}

\* ----------------------------------------------------------------- actions

\* What the last call was and how it ended.
Call(op, k, v, err, ret, calls) ==
    [op |-> op, k |-> k, v |-> v, err |-> err, ret |-> ret, calls |-> calls]

NoCall == Call("init", NoneVal, NoneVal, "ok", NoneVal, 0)

\* The step of a call on m that ended as r did.
Step(c, r) ==
    /\ Len(r.entries) <= MaxSize
    /\ m' = r.entries
    /\ last' = c
    /\ UNCHANGED <<factory, m2, factory2>>

SetCall(k, v, r) == Call("set", k, v, r.err, NoneVal, 0)

GetCall(k, v, r) ==
    Call("get", k, IF r.calls = 0 THEN NoneVal ELSE v, r.err, r.ret, r.calls)

DelCall(k, r) == Call("del", k, NoneVal, r.err, NoneVal, 0)

SetStep(k, v, r) == Step(SetCall(k, v, r), r)

GetStep(k, v, r) == Step(GetCall(k, v, r), r)

DelStep(k, r) == Step(DelCall(k, r), r)

\* m[k] = v
Set(K, V) == \E k \in K, v \in V : SetStep(k, v, SetItem(m, k, v))

\* m[k]; v is what the factory returns if this lookup calls it.
Get(K, V) ==
    \E k \in K, v \in (IF factory = "callable" THEN V ELSE {NoneVal}) :
       GetStep(k, v, GetItem(m, factory = "callable", v, k))

\* del m[k]
Del(K) == \E k \in K : DelStep(k, DictDelItem(m, k))

\* HDict() or HDict(factory=f), followed by any sequence of set, get and del.
Init ==
    /\ m = <<>>
    /\ factory \in {"none", "callable"}
    /\ m2 = <<>>
    /\ factory2 = "none"
    /\ last = NoCall

Next ==
    \/ Set(KeysOffered, ValuesOffered)
    \/ Get(KeysOffered, FactoryReturns)
    \/ Del(KeysOffered)

Spec == Init /\ [][Next]_vars

\* --------------------------------------------- two instances (for hashing)

HashKeys == {Str("a"), Str("b"), PlainMapping}

HashValues == {One, Two}

\* The step of a call on the second instance m2 that ended as r did.
Step2(c, r) ==
    /\ Len(r.entries) <= MaxSize
    /\ m2' = r.entries
    /\ last' = c
    /\ UNCHANGED <<factory, m, factory2>>

SetStep2(k, v, r) == Step2(SetCall(k, v, r), r)

GetStep2(k, v, r) == Step2(GetCall(k, v, r), r)

DelStep2(k, r) == Step2(DelCall(k, r), r)

\* m2[k] = v
Set2(K, V) == \E k \in K, v \in V : SetStep2(k, v, SetItem(m2, k, v))

\* m2[k]
Get2(K, V) ==
    \E k \in K, v \in (IF factory2 = "callable" THEN V ELSE {NoneVal}) :
       GetStep2(k, v, GetItem(m2, factory2 = "callable", v, k))

\* del m2[k]
Del2(K) == \E k \in K : DelStep2(k, DictDelItem(m2, k))

\* Two instances, m built with a factory and m2 without.
InitHash ==
    /\ m = <<>>
    /\ factory = "callable"
    /\ m2 = <<>>
    /\ factory2 = "none"
    /\ last = NoCall

NextHash ==
    \/ Set(HashKeys, HashValues)
    \/ Get(HashKeys, {Two})
    \/ Del(HashKeys)
    \/ Set2(HashKeys, HashValues)
    \/ Get2(HashKeys, {Two})
    \/ Del2(HashKeys)

SpecHash == InitHash /\ [][NextHash]_vars

\* ------------------------------------------------------------ construction

Three == Num("3")

\* What a positional argument may be: scalars (one of them a two-character
\* string), a list, pairs with and without an unhashable component, a dict.
ArgItems ==
    {Str("a"), Str("ab"), One, AList, Tup(<<Str("a"), One>>),
     Tup(<<Str("b"), AList>>), Dict(<<Entry(Str("a"), One)>>)}

\* The sequences over S of the lengths lo..hi.
SeqsOf(S, lo, hi) == UNION {[1..n -> S] : n \in lo..hi}

ArgLists == SeqsOf(ArgItems, 0, MaxArgs)

\* The named (keyword) entries of a call.
NamedLists == {<<>>, <<Entry(Str("a"), Two)>>, <<Entry(Str("b"), Two)>>}

\* The values argument of a call.
ValuesArgs == {NoneVal, Dict(<<Entry(Str("a"), Three)>>)}

NewCall(args, named, values, r) ==
    [op |-> "new", args |-> args, named |-> named, values |-> values, err |-> r.err]

\* The step of a constructor call that ended as r did; m is the new instance
\* (no instance when the call raised).
NewStep(c, r) ==
    /\ m' = IF r.err = "ok" THEN r.entries ELSE <<>>
    /\ last' = c
    /\ UNCHANGED <<factory, m2, factory2>>

\* m = HDict(*args, values=values, **named)
Construct ==
    /\ last.op = "init"
    /\ \E args \in ArgLists, named \in NamedLists, values \in ValuesArgs :
          NewStep(NewCall(args, named, values, HDictInit(args, values, named)),
                  HDictInit(args, values, named))

FormKeys == {Str("a"), Str("ab"), One, Tup(<<One, Two>>)}

FormValues == {One, Str("cd"), Tup(<<One, Two>>)}

\* Entry lists with hashable keys and values, the keys different.
EntryLists(K, V) ==
    {es \in SeqsOf({Entry(k, v) : k \in K, v \in V}, 1, MaxPairs) :
        \A i, j \in 1..Len(es) : i # j => ~PyEq(EKey(es[i]), EKey(es[j]))}

\* The positional arguments of the pair form: (k1, v1), (k2, v2), ...
PairArgs(es) == [i \in 1..Len(es) |-> Tup(<<EKey(es[i]), EVal(es[i])>>)]

\* The positional arguments of the flat form: k1, v1, k2, v2, ...
FlatArgs(es) ==
    [i \in 1..(2 * Len(es)) |->
        IF i % 2 = 1 THEN EKey(es[(i + 1) \div 2]) ELSE EVal(es[i \div 2])]

\* The positional argument of the mapping form: {k1: v1, k2: v2, ...}
MappingArgs(es) == <<Dict(es)>>

FormsCall(es, pair, flat, mapping) ==
    [op |-> "forms", entries |-> es, pair |-> pair, flat |-> flat,
     mapping |-> mapping, err |-> mapping.err]

\* HDict(*pairs), HDict(*flat) and HDict(mapping) of one entry list.
BuildForms ==
    /\ last.op = "init"
    /\ \E es \in EntryLists(FormKeys, FormValues) :
          NewStep(FormsCall(es, HDictInit(PairArgs(es), NoneVal, <<>>),
                            HDictInit(FlatArgs(es), NoneVal, <<>>),
                            HDictInit(MappingArgs(es), NoneVal, <<>>)),
                  HDictInit(MappingArgs(es), NoneVal, <<>>))

InitCtor ==
    /\ m = <<>>
    /\ factory = "none"
    /\ m2 = <<>>
    /\ factory2 = "none"
    /\ last = NoCall

NextCtor == Construct \/ BuildForms

SpecCtor == InitCtor /\ [][NextCtor]_vars

\* ------------------------------------------------------------------- JSON

\* JSON values are records of the same shape: t is "object" (items its
\* members), "member" (s the key text, items = <<value>>), "array",
\* "string", "number" or "null".
JVal(t, s, items) == [t |-> t, s |-> s, items |-> items]

\* json.dumps(v): a mapping (HDict is a dict) renders as an object whose keys
\* are the text of the keys, a list or tuple as an array.
RECURSIVE Dumps(_)
Dumps(v) ==
    CASE IsMapping(v) ->
            JVal("object", "",
                 [i \in 1..Len(v.items) |->
                     JVal("member", EKey(v.items[i]).s, <<Dumps(EVal(v.items[i]))>>)])
      [] v.t \in {"list", "tuple"} ->
            JVal("array", "", [i \in 1..Len(v.items) |-> Dumps(v.items[i])])
      [] v.t = "str" -> JVal("string", v.s, <<>>)
      [] v.t = "int" -> JVal("number", v.s, <<>>)
      [] OTHER -> JVal("null", "", <<>>)

\* HDict.to_json(): json.dumps(self, indent=4)
ToJson(entries) == Dumps(HD(entries))

\* json.loads(text): an object parses to a plain dict with str keys, an
\* array to a list.
RECURSIVE JsonLoads(_)
JsonLoads(j) ==
    CASE j.t = "object" ->
            Dict([i \in 1..Len(j.items) |->
                     Entry(Str(j.items[i].s), JsonLoads(j.items[i].items[1]))])
      [] j.t = "array" -> List([i \in 1..Len(j.items) |-> JsonLoads(j.items[i])])
      [] j.t = "string" -> Str(j.s)
      [] j.t = "number" -> Num(j.s)
      [] OTHER -> NoneVal

\* The entries of d whose key text is in / is not in the set names.
Named(d, names) == SelectSeq(d.items, LAMBDA e : EKey(e).s \in names)

Unnamed(d, names) == SelectSeq(d.items, LAMBDA e : EKey(e).s \notin names)

\* The argument the parameter `values` is bound to by cls(**d): d["values"]
\* when d has that key, else the default None.
ValuesParameter(d) ==
    IF Named(d, {"values"}) = <<>> THEN NoneVal ELSE EVal(Named(d, {"values"})[1])

\* cls(**d): the keys of d are matched against __init__'s parameters. "self"
\* collides with the bound instance (TypeError); "values" and "factory" bind
\* the parameters of those names; every other key lands in **kwargs.
CallWithKeywords(d) ==
    IF Named(d, {"self"}) # <<>> THEN Res("TypeError", <<>>)
    ELSE HDictInit(<<>>, ValuesParameter(d), Unnamed(d, {"values", "factory"}))

\* HDict.loads(string): cls(**json.loads(string))
Loads(j) == CallWithKeywords(JsonLoads(j))

JsonKeys == {Str("a"), Str("values"), Str("factory"), Str("self")}

\* JSON scalars and nested maps, one holding the parameter names as keys.
JsonValues ==
    {One, Str("b"), NestH(MaxDepth, One),
     HD(<<Entry(Str("values"), HD(<<Entry(Str("factory"), One)>>))>>)}

\* The maps to serialise: what HDict(values=es) builds from an entry list.
JsonMaps == {<<>>} \cup EntryLists(JsonKeys, JsonValues)

JsonCall(text, r) == [op |-> "json", text |-> text, err |-> r.err]

\* m2 = HDict.loads(m.to_json())
RoundTrip ==
    /\ last.op = "init"
    /\ m2' = Loads(ToJson(m)).entries
    /\ last' = JsonCall(ToJson(m), Loads(ToJson(m)))
    /\ UNCHANGED <<m, factory, factory2>>

InitJson ==
    /\ m \in JsonMaps
    /\ factory = "none"
    /\ m2 = <<>>
    /\ factory2 = "none"
    /\ last = NoCall

NextJson == RoundTrip

SpecJson == InitJson /\ [][NextJson]_vars

\* ------------------------------------------------------------------ claims

\* The set of keys of a map.
KeySet(entries) == {EKey(entries[i]) : i \in 1..Len(entries)}

\* hash(frozenset(S)) computed from the set S itself.
RECURSIVE HashOfKeySet(_)
HashOfKeySet(S) ==
    IF S = {} THEN 7919
    ELSE LET x == CHOOSE y \in S : TRUE
         IN (((PyHash(x) * 31 + 17) % 65521) + HashOfKeySet(S \ {x})) % 65521

\* Two maps hold the same keys (as Python compares keys).
SameKeySet(e1, e2) ==
    /\ \A i \in 1..Len(e1) : Contains(e2, EKey(e1[i]))
    /\ \A i \in 1..Len(e2) : Contains(e1, EKey(e2[i]))

\* C1: in every state reached by set, get (with factory materialisation) and
\* key removal, hash() of a map is the hash of the set of its keys, and two
\* instances holding the same keys hash equal whatever their insertion
\* order, their values or their factory.
HashIsOfKeySet ==
    /\ HDictHash(m) = HashOfKeySet(KeySet(m))
    /\ HDictHash(m2) = HashOfKeySet(KeySet(m2))
    /\ SameKeySet(m, m2) => HDictHash(m) = HDictHash(m2)

\* Two instances with the same two keys in opposite orders and with
\* different values, one of them filled by its factory.
HashIsOfKeySetWitness ==
    /\ Len(m) = 2
    /\ Len(m2) = 2
    /\ SameKeySet(m, m2)
    /\ ~PyEq(EKey(m[1]), EKey(m2[1]))
    /\ \E i \in 1..2 : EVal(m[i]) = Two
    /\ \A i \in 1..2 : EVal(m2[i]) = One
    /\ last.op = "del"

\* C2 (as claimed): every key and every value stored in the map is hashable.
AllStoredHashable ==
    \A i \in 1..Len(m) : CanHash(EKey(m[i])) /\ CanHash(EVal(m[i]))

\* What coercion is to make of x: a plain dict becomes a new HDict (no
\* factory) of the same entries in the same order, each converted the same
\* way; anything else is x itself.
RECURSIVE Expected(_)
Expected(x) ==
    IF x.t = "dict"
    THEN HD([i \in 1..Len(x.items) |->
                Entry(Expected(EKey(x.items[i])), Expected(EVal(x.items[i])))])
    ELSE x

FailedCallChangesNothing ==
    [][(last'.op \in {"set", "get"} /\ last'.err # "ok") =>
          (m' = m /\ factory' = factory)]_vars

\* A set of an unhashable non-mapping key with a plain-mapping value failed
\* on a map of two entries.
FailedCallChangesNothingWitness ==
    /\ last.op = "set"
    /\ last.err # "ok"
    /\ last.k = AList
    /\ last.v = PlainMapping
    /\ Len(m) = 2

\* C5: a get calls the factory once when the key is absent (and hashable,
\* and the map has a factory) and never otherwise, and no set or removal
\* calls it; when such a get returns, the key is present, one entry was
\* added and the value returned is the value stored, the coerced factory
\* result; a get of a present key returns the stored value and changes
\* nothing.
FactoryMaterialisation ==
    [][/\ last'.op \in {"set", "del"} => last'.calls = 0
       /\ last'.op = "get" =>
             IF CanHash(last'.k) /\ ~Contains(m, last'.k) /\ factory = "callable"
             THEN /\ last'.calls = 1
                  /\ last'.err = "ok" =>
                        /\ Contains(m', last'.k)
                        /\ Len(m') = Len(m) + 1
                        /\ last'.ret = DictGetItem(m', last'.k)
                        /\ last'.ret = Expected(last'.v)
             ELSE /\ last'.calls = 0
                  /\ m' = m
                  /\ (CanHash(last'.k) /\ Contains(m, last'.k)) =>
                        /\ last'.err = "ok"
                        /\ last'.ret = DictGetItem(m, last'.k)]_vars

\* A get of an absent key returned the HDict made of the plain mapping the
\* factory produced.
FactoryMaterialisationWitness ==
    /\ last.op = "get"
    /\ last.err = "ok"
    /\ last.calls = 1
    /\ last.v = PlainMapping
    /\ last.ret = NestH(MaxDepth, One)
    /\ Contains(m, last.k)

\* Unhashable and not mapping-typed, as __setitem__ tests it.
Unhashable(x) == ~IsMapping(x) /\ ~IsHashable(x)

\* C9 (as claimed): a set whose key or value is unhashable and not a mapping
\* fails with a ValueError: the value's message when the value is such an
\* item, the key's message when the key alone is, the value being hashable
\* or a plain mapping that coerces.
SetFailsWithValueError ==
    last.op = "set" =>
       /\ (Unhashable(last.k) \/ Unhashable(last.v)) =>
             last.err \in {"ValueError:value", "ValueError:key"}
       /\ Unhashable(last.v) => last.err = "ValueError:value"
       /\ (/\ Unhashable(last.k)
           /\ \/ IsHashable(last.v)
              \/ IsPlainMapping(last.v) /\ Coerced(last.v).err = "ok") =>
             last.err = "ValueError:key"

\* The value of the last entry of es whose key equals k.
LastValue(es, k) ==
    EVal(es[CHOOSE i \in 1..Len(es) :
               /\ PyEq(EKey(es[i]), k)
               /\ \A j \in (i + 1)..Len(es) : ~PyEq(EKey(es[j]), k)])

\* The entries that the values argument supplies.
ValuesEntries(values) == IF IsMapping(values) THEN values.items ELSE <<>>

\* The map holds exactly the keys its sources supply, and under each the
\* coerced value of the source that wins: the first source of the list
\* `order` (winner first) that supplies the key.
MergedBy(order) ==
    /\ \A s \in 1..Len(order) : \A i \in 1..Len(order[s]) :
          Contains(m, EKey(order[s][i]))
    /\ \A i \in 1..Len(m) :
          /\ \E s \in 1..Len(order) : Contains(order[s], EKey(m[i]))
          /\ LET s == CHOOSE s \in 1..Len(order) :
                         /\ Contains(order[s], EKey(m[i]))
                         /\ \A t \in 1..(s - 1) : ~Contains(order[t], EKey(m[i]))
             IN EVal(m[i]) = Expected(LastValue(order[s], EKey(m[i])))

\* C6 (as claimed): the pair form, the flat form and the mapping form of one
\* entry list with hashable keys and values all construct, and give maps
\* with the same keys and the same values.
FormsAgree ==
    last.op = "forms" =>
       /\ last.pair.err = "ok"
       /\ last.flat.err = "ok"
       /\ last.mapping.err = "ok"
       /\ PyEq(HD(last.pair.entries), HD(last.mapping.entries))
       /\ PyEq(HD(last.flat.entries), HD(last.mapping.entries))

\* No plain dict anywhere in v.
RECURSIVE NoPlainMapping(_)
NoPlainMapping(v) ==
    /\ v.t # "dict"
    /\ \A i \in 1..Len(v.items) : NoPlainMapping(v.items[i])

\* C7 (as claimed): loads(to_json(m)) is an HDict equal to m, its nested maps
\* HDicts again.
RoundTripEqual ==
    last.op = "json" =>
       /\ last.err = "ok"
       /\ PyEq(HD(m2), HD(m))
       /\ NoPlainMapping(HD(m2))

\* A positional argument is a 2-element sequence.
IsPairArg(a) == IsSequence(a) /\ Len(SeqItems(a)) = 2

AllPairArgs(args) == args # <<>> /\ \A i \in 1..Len(args) : IsPairArg(args[i])

\* Pair arguments (each a 2-element tuple or list) of which one has an
\* unhashable component.
PairsWithUnhashable(args) ==
    /\ args # <<>>
    /\ \A i \in 1..Len(args) :
          args[i].t \in {"tuple", "list"} /\ Len(args[i].items) = 2
    /\ \E i \in 1..Len(args) : \E j \in 1..2 : ~IsHashable(args[i].items[j])

\* A flat list (not all of it pairs) of odd length that is no single mapping.
OddFlat(args) ==
    /\ ~AllPairArgs(args)
    /\ Len(args) % 2 = 1
    /\ ~(Len(args) = 1 /\ IsMapping(args[1]))

\* A flat list of even length with an unhashable item at an even index.
FlatWithUnhashableKey(args) ==
    /\ ~AllPairArgs(args)
    /\ Len(args) # 0
    /\ Len(args) % 2 = 0
    /\ \E i \in 1..Len(args) : (i - 1) % 2 = 0 /\ ~IsHashable(args[i])

\* C8 (as claimed): a construction whose positional arguments are an odd
\* flat list, a flat list with an unhashable item at an even index, or pair
\* arguments with an unhashable component (any number of them) fails with
\* the argument-shape error.
MalformedShapeRejected ==
    (/\ last.op = "new"
     /\ \/ OddFlat(last.args)
        \/ FlatWithUnhashableKey(last.args)
        \/ PairsWithUnhashable(last.args)) =>
       last.err = "ValueError:shape"

\* C10 (as claimed): named entries overwrite positional-derived entries, and
\* values entries overwrite both.
NamedOverwritesPositional ==
    (last.op = "new" /\ last.err = "ok") =>
       MergedBy(<<ValuesEntries(last.values), last.named,
                  PositionalEntries(last.args).entries>>)

\* C10 (amended): positional-derived entries overwrite named entries of the
\* same key, and values entries overwrite both.
PositionalOverwritesNamed ==
    (last.op = "new" /\ last.err = "ok") =>
       MergedBy(<<ValuesEntries(last.values),
                  PositionalEntries(last.args).entries, last.named>>)

\* One construction gave the key "a" positionally (1), by name (2) and not
\* in values, and the map holds the positional 1.
PositionalOverwritesNamedWitness ==
    /\ last.op = "new"
    /\ last.err = "ok"
    /\ last.args = <<Tup(<<Str("a"), One>>)>>
    /\ last.named = <<Entry(Str("a"), Two)>>
    /\ last.values = NoneVal
    /\ m = <<Entry(Str("a"), One)>>

=============================================================================
